---- MODULE Spec2Model ----
(***************************************************************************)
(* Acceleration schemes of pyunlocbox (pyunlocbox/acceleration.py): dummy, *)
(* backtracking, fista, fista_backtracking and regularized_nonlinear,      *)
(* driven by a solver through pre / update_step / update_sol / post.       *)
(*                                                                         *)
(* Iterates are scalars (one-dimensional arrays).  Floats are modelled by  *)
(* exact rationals [n, d] in lowest terms with d > 0; NaN is 0/0.  The     *)
(* square root (np.sqrt) is computed to SqrtScale fixed-point precision.   *)
(***************************************************************************)
EXTENDS Integers, Sequences, FiniteSets, TLC

VARIABLES
    cfg,        \* arguments the scheme was constructed with
    acc,        \* the scheme instance (self): its class and its attributes
    ref,        \* a freshly constructed instance with the same arguments,
                \* pre-processed at the start of the current run and fed the
                \* same calls (reference for reuse across runs)
    phase,      \* "new", "ctor_failed", "constructed", "running", "posted", "failed"
    run,        \* number of runs started on the instance
    solver,     \* the solver's view: sol, step and the base of its iteration
    functions,  \* the objective collection of the current run
    objective,  \* objective history of the current run
    niter,      \* 1-based iteration index of the current run
    done,       \* which of update_step / update_sol were called at this index
    bt,         \* position of backtracking._update_step inside its while loop
    last        \* what the most recent call did and returned

vars == <<cfg, acc, ref, phase, run, solver, functions, objective, niter, done, bt, last>>

----------------------------------------------------------------------------
(* Bounds of the model *)

MaxIter == 4        \* iterations per run
MaxRuns == 2        \* runs on one instance
MaxK == 2           \* largest buffer parameter k tried
MaxShrink == 8      \* loop iterations of the backtracking loop explored
LsMaxHalve == 2     \* safeguarded halvings explored inside the Armijo search
SqrtScale == 1000   \* fixed-point precision of the square root

----------------------------------------------------------------------------
(* Exact rational arithmetic with NaN *)

\* Op applied to its arguments, each argument being evaluated once
Apply1(Op(_), a) == CHOOSE r \in {Op(x) : x \in {a}} : TRUE
Apply2(Op(_, _), a, b) == CHOOSE r \in {Op(x, y) : x \in {a}, y \in {b}} : TRUE
Apply3(Op(_, _, _), a, b, c) ==
    CHOOSE r \in {Op(x, y, z) : x \in {a}, y \in {b}, z \in {c}} : TRUE

Abs(i) == IF i < 0 THEN -i ELSE i

RECURSIVE Gcd(_, _)
GcdStep(a, b) == IF b = 0 THEN a ELSE Gcd(b, a % b)
Gcd(a, b) == Apply2(GcdStep, a, b)

NaN == [n |-> 0, d |-> 0]

IsNaN(x) == x.d = 0

\* n / d in lowest terms, the denominator positive
Reduce(n, d) ==
    IF d = 0 THEN NaN
    ELSE LET g == Gcd(Abs(n), Abs(d))
             s == IF d < 0 THEN -1 ELSE 1
         IN  [n |-> s * (n \div g), d |-> s * (d \div g)]

Q(n, d) == Apply2(Reduce, n, d)

Zero == Q(0, 1)
One == Q(1, 1)
Two == Q(2, 1)
Half == Q(1, 2)

RNeg(a) == [n |-> -(a.n), d |-> a.d]

Sum2(a, b) ==
    IF IsNaN(a) \/ IsNaN(b) THEN NaN
    ELSE LET g == Gcd(a.d, b.d)
         IN  Q(a.n * (b.d \div g) + b.n * (a.d \div g), (a.d \div g) * b.d)

RAdd(a, b) == Apply2(Sum2, a, b)

RSub(a, b) == RAdd(a, RNeg(b))

Product(a, b) ==
    IF IsNaN(a) \/ IsNaN(b) THEN NaN
    ELSE LET g1 == Gcd(Abs(a.n), b.d)
             g2 == Gcd(Abs(b.n), a.d)
         IN  Q((a.n \div g1) * (b.n \div g2), (a.d \div g2) * (b.d \div g1))

RMul(a, b) == Apply2(Product, a, b)

\* x / 0 is reported as NaN; callers that can divide by zero test for it.
Quotient(a, b) ==
    IF IsNaN(a) \/ IsNaN(b) \/ b.n = 0 THEN NaN
    ELSE RMul(a, Q(b.d, b.n))

RDiv(a, b) == Apply2(Quotient, a, b)

\* Comparisons involving NaN are false, as for IEEE floats.
Less(a, b) ==
    /\ ~IsNaN(a)
    /\ ~IsNaN(b)
    /\ LET g == Gcd(a.d, b.d) IN a.n * (b.d \div g) < b.n * (a.d \div g)

RLt(a, b) == Apply2(Less, a, b)

LessEq(a, b) == ~IsNaN(a) /\ ~IsNaN(b) /\ ~Less(b, a)

RLe(a, b) == Apply2(LessEq, a, b)
RGt(a, b) == RLt(b, a)

RAbs(a) == [n |-> Abs(a.n), d |-> a.d]

RECURSIVE RPow(_, _)
RPow(a, e) == IF e = 0 THEN One ELSE RMul(a, RPow(a, e - 1))

\* floor(sqrt(x)) for a natural x, by bisection on [lo, hi].
RECURSIVE ISqrtIn(_, _, _)
ISqrtStep(x, lo, hi) ==
    IF lo >= hi THEN lo
    ELSE LET mid == (lo + hi + 1) \div 2
         IN  IF mid * mid <= x THEN ISqrtIn(x, mid, hi) ELSE ISqrtIn(x, lo, mid - 1)

ISqrtIn(x, lo, hi) == Apply3(ISqrtStep, x, lo, hi)

\* np.sqrt on a non-negative rational, rounded down to 1/SqrtScale.
Root(a) ==
    IF IsNaN(a) \/ a.n < 0 THEN NaN
    ELSE LET s == RMul(a, Q(SqrtScale * SqrtScale, 1))
         IN  Q(ISqrtIn(s.n \div s.d, 0, 46340), SqrtScale)

RSqrt(a) == Apply1(Root, a)

\* the sequence with the values of function f on 1..n, computed once
AsTuple(f) == <<>> \o f

\* sum of a sequence of rationals (np.sum)
RECURSIVE SumTo(_, _)
SumTo(s, n) == IF n = 0 THEN Zero ELSE RAdd(SumTo(s, n - 1), s[n])

RSum(s) == LET t == AsTuple(s) IN SumTo(t, Len(t))

----------------------------------------------------------------------------
(* Objective functions (pyunlocbox.functions), on scalars *)

YTarget == One

\* f.cap(x): the operations the function implements
FCap(f) ==
    CASE f = "norm_l2" -> {"EVAL", "GRAD", "PROX"}
      [] f = "norm_l1" -> {"EVAL", "PROX"}
      [] f = "dummy"   -> {"EVAL", "GRAD", "PROX"}

\* f.eval(x)
FEval(f, x) ==
    CASE f = "norm_l2" -> RMul(RSub(x, YTarget), RSub(x, YTarget))
      [] f = "norm_l1" -> IF IsNaN(x) THEN NaN ELSE RAbs(x)
      [] f = "dummy"   -> Zero

\* f.grad(x)
FGrad(f, x) ==
    CASE f = "norm_l2" -> RMul(Two, RSub(x, YTarget))
      [] f = "norm_l1" -> NaN
      [] f = "dummy"   -> Zero

\* f.prox(x, T)
FProx(f, x, T) ==
    CASE f = "norm_l1" ->
            IF RGt(x, T) THEN RSub(x, T)
            ELSE IF RLt(x, RNeg(T)) THEN RAdd(x, T)
            ELSE Zero
      [] f = "norm_l2" -> RDiv(RAdd(x, RMul(RMul(Two, T), YTarget)),
                               RAdd(One, RMul(Two, T)))
      [] f = "dummy"   -> x

\* np.sum([f.eval(x) for f in fs])
SumEval(fs, x) == RSum([i \in 1..Len(fs) |-> FEval(fs[i], x)])

\* sum of f.grad(x) over fs
SumGrad(fs, x) == RSum([i \in 1..Len(fs) |-> FGrad(fs[i], x)])

----------------------------------------------------------------------------
(* Construction *)

Classes == {"dummy", "backtracking", "fista", "fista_backtracking",
            "regularized_nonlinear"}

\* Method resolution order fixed by the class statements.
MRO(cls) ==
    CASE cls = "dummy" -> <<"dummy", "accel">>
      [] cls = "backtracking" -> <<"backtracking", "dummy", "accel">>
      [] cls = "fista" -> <<"fista", "dummy", "accel">>
      [] cls = "regularized_nonlinear" -> <<"regularized_nonlinear", "dummy", "accel">>
      [] cls = "fista_backtracking" ->
            <<"fista_backtracking", "backtracking", "fista", "dummy", "accel">>

\* The methods each class body defines.
Defines(c) ==
    CASE c = "accel" -> {"__init__"}
      [] c = "dummy" -> {"_pre", "_update_step", "_update_sol", "_post"}
      [] c = "backtracking" -> {"__init__", "_pre", "_update_step", "_post"}
      [] c = "fista" -> {"__init__", "_update_sol"}
      [] c = "regularized_nonlinear" -> {"__init__", "_pre", "_update_sol", "_post"}
      [] c = "fista_backtracking" -> {"__init__"}

\* The class whose definition of method meth an instance of cls runs.
Resolve(cls, meth) ==
    LET mro == MRO(cls)
        i == CHOOSE j \in 1..Len(mro) :
                /\ meth \in Defines(mro[j])
                /\ \A h \in 1..(j - 1) : meth \notin Defines(mro[h])
    IN  mro[i]

\* An object with no attributes.  Attribute values are read only when the
\* attribute's name is in has; reading an absent one is an AttributeError.
NoObj ==
    [cls |-> "none", has |-> {}, eta |-> Zero, t |-> Zero, sol |-> Zero,
     smooth_funs |-> <<>>, k |-> 0, lambda |-> <<>>, adaptive |-> FALSE,
     dolinesearch |-> FALSE, forcedecrease |-> FALSE, buffer |-> <<>>,
     functions |-> <<>>]

\* Result of running a constructor body.
InitOk(obj) == [obj |-> obj, err |-> "none", printed |-> FALSE]
InitErr(obj, e) == [obj |-> obj, err |-> e, printed |-> FALSE]

\* accel.__init__(self): takes no keyword argument.
AccelInit(obj, kw) ==
    IF kw.keys # {} THEN InitErr(obj, "TypeError") ELSE InitOk(obj)

\* backtracking.__init__(self, eta=0.5, **kwargs), up to its call of
\* super().__init__(**kwargs): the instance, and kwargs as passed on
BacktrackingInit(obj, kw) ==
    LET eta == IF "eta" \in kw.keys THEN kw.eta ELSE Half
    IN  IF RGt(eta, One) \/ RLe(eta, Zero)
        THEN [obj |-> obj, err |-> "ValueError", kw |-> kw]
        ELSE [obj |-> [obj EXCEPT !.eta = eta, !.has = @ \cup {"eta"}],
              err |-> "none",
              kw |-> [kw EXCEPT !.keys = @ \ {"eta"}]]

\* fista.__init__(self, **kwargs), up to its call of super().__init__(**kwargs)
FistaInit(obj, kw) ==
    [obj |-> [obj EXCEPT !.t = One, !.has = @ \cup {"t"}], err |-> "none", kw |-> kw]

\* c.__init__(self, **kw) for the class c at position i of the instance's
\* method resolution order, with the super().__init__ calls it makes; a
\* class that defines no __init__ inherits the next one
RECURSIVE InitFrom(_, _, _, _)
InitFrom(mro, i, obj, kw) ==
    IF "__init__" \notin Defines(mro[i]) THEN InitFrom(mro, i + 1, obj, kw)
    ELSE IF mro[i] = "accel" THEN AccelInit(obj, kw)
    ELSE LET r == IF mro[i] = "backtracking" THEN BacktrackingInit(obj, kw)
                  ELSE FistaInit(obj, kw)
         IN  IF r.err # "none" THEN InitErr(r.obj, r.err)
             ELSE InitFrom(mro, i + 1, r.obj, r.kw)

\* fista_backtracking.__init__(self, **kwargs)
FistaBacktrackingInit(mro, obj, kw) ==
    LET At(c) == CHOOSE h \in 1..Len(mro) : mro[h] = c
        r1 == InitFrom(mro, At("backtracking"), obj, kw)
    IN  IF r1.err # "none" THEN r1 ELSE InitFrom(mro, At("fista"), r1.obj, kw)

\* float(elem) for one supplied value
FloatOf(e) ==
    CASE e.kind = "num" -> [err |-> "none", v |-> e.v]
      [] e.kind = "str" -> [err |-> "ValueError", v |-> Zero]
      [] e.kind = "none" -> [err |-> "TypeError", v |-> Zero]

\* the first error raised by [float(elem) for elem in elems], or "none"
RECURSIVE FirstFloatErr(_)
FirstFloatErr(elems) ==
    IF elems = <<>> THEN "none"
    ELSE IF FloatOf(Head(elems)).err # "none" THEN FloatOf(Head(elems)).err
    ELSE FirstFloatErr(Tail(elems))

\* regularized_nonlinear.lambda_ setter.  x is the supplied value: x.iter
\* says whether it can be iterated, x.elems are its elements, x.self is the
\* value itself as float() sees it.
SetLambda(obj, x) ==
    LET listErr == IF x.iter THEN FirstFloatErr(x.elems) ELSE "TypeError"
        one == FloatOf(x.self)
        store(vals) == [obj EXCEPT !.lambda = vals, !.has = @ \cup {"_lambda_"}]
    IN  IF listErr = "none"
        THEN InitOk(store(AsTuple([i \in 1..Len(x.elems) |-> FloatOf(x.elems[i]).v])))
        ELSE IF listErr = "TypeError"
        THEN IF one.err = "none" THEN InitOk(store(<<one.v>>))
             ELSE IF one.err = "ValueError"
             THEN [obj |-> obj, err |-> "none", printed |-> TRUE]
             ELSE InitErr(obj, "TypeError")
        ELSE [obj |-> obj, err |-> "none", printed |-> TRUE]

\* regularized_nonlinear.__init__
RnaInit(obj, a) ==
    LET o1 == [obj EXCEPT !.k = a.k, !.has = @ \cup {"k"}]
        r == SetLambda(o1, a.lambda_)
    IN  IF r.err # "none" THEN r
        ELSE [r EXCEPT !.obj = [r.obj EXCEPT
                  !.adaptive = a.adaptive,
                  !.dolinesearch = a.dolinesearch,
                  !.forcedecrease = a.forcedecrease,
                  !.has = @ \cup {"adaptive", "dolinesearch", "forcedecrease"}]]

\* cls(**arguments)
New(a) ==
    LET obj == [NoObj EXCEPT !.cls = a.cls]
        kw == [keys |-> a.keys, eta |-> a.eta]
        mro == MRO(a.cls)
    IN  CASE a.cls = "regularized_nonlinear" -> RnaInit(obj, a)
          [] a.cls = "fista_backtracking" -> FistaBacktrackingInit(mro, obj, kw)
          [] OTHER -> InitFrom(mro, 1, obj, kw)

----------------------------------------------------------------------------
(* pre and post *)

\* accel.pre(functions, x0) followed by the class's _pre
Pre(obj, fs, x0) ==
    LET o1 == [obj EXCEPT !.sol = x0, !.has = @ \cup {"sol"}]
        c == Resolve(obj.cls, "_pre")
    IN  CASE c = "dummy" -> o1
          [] c = "backtracking" ->
                [o1 EXCEPT !.smooth_funs = SelectSeq(fs, LAMBDA f : "GRAD" \in FCap(f)),
                           !.has = @ \cup {"smooth_funs"}]
          [] c = "regularized_nonlinear" ->
                [o1 EXCEPT !.buffer = <<>>, !.functions = fs,
                           !.has = @ \cup {"buffer", "functions"}]

\* del self.<names>: AttributeError when one of them is absent
Del(obj, names) ==
    IF names \subseteq obj.has
    THEN [obj |-> [obj EXCEPT !.has = @ \ names], err |-> "none"]
    ELSE [obj |-> obj, err |-> "AttributeError"]

\* accel.post(): the class's _post, then del self.sol
Post(obj) ==
    LET c == Resolve(obj.cls, "_post")
        r == CASE c = "dummy" -> [obj |-> obj, err |-> "none"]
               [] c = "backtracking" -> Del(obj, {"smooth_funs"})
               [] c = "regularized_nonlinear" -> Del(obj, {"buffer", "functions"})
    IN  IF r.err # "none" THEN r ELSE Del(r.obj, {"sol"})

----------------------------------------------------------------------------
(* update_sol *)

\* What an update_sol call reports: the instance afterwards, the returned
\* point, the exception raised, and what the extrapolation did.
SolResult(obj, ret, err) ==
    [obj |-> obj, ret |-> ret, err |-> err, extrap |-> FALSE, seen |-> 0,
     grid |-> <<>>, rebuilt |-> FALSE, fallback |-> FALSE, ls |-> "skipped",
     alpha |-> Zero]

\* dummy._update_sol returning the snapshot it held instead of solver.sol
DummyUpdateSolStale(self, sv) ==
    IF "sol" \notin self.has THEN SolResult(self, Zero, "AttributeError")
    ELSE SolResult([self EXCEPT !.sol = sv.sol], self.sol, "none")

\* dummy._update_sol
DummyUpdateSol(self, sv) ==
    IF "sol" \notin self.has THEN SolResult(self, Zero, "AttributeError")
    ELSE SolResult([self EXCEPT !.sol = sv.sol], sv.sol, "none")

\* t = (1. + np.sqrt(1. + 4. * self.t**2.)) / 2.
FistaNext(t) ==
    RDiv(RAdd(One, RSqrt(RAdd(One, RMul(Q(4, 1), RMul(t, t))))), Two)

\* fista._update_sol without the restart of t at niter == 1
FistaUpdateSolNoRestart(self, sv, it) ==
    IF {"t", "sol"} \subseteq self.has
    THEN LET y == RAdd(sv.sol, RMul(RDiv(RSub(self.t, One), FistaNext(self.t)),
                                    RSub(sv.sol, self.sol)))
         IN  SolResult([self EXCEPT !.t = FistaNext(self.t), !.sol = sv.sol],
                       y, "none")
    ELSE SolResult(self, Zero, "AttributeError")

\* fista._update_sol
FistaUpdateSol(self, sv, it) ==
    IF {"t", "sol"} \subseteq self.has
    THEN LET t0 == IF it = 1 THEN One ELSE self.t
             y == RAdd(sv.sol, RMul(RDiv(RSub(t0, One), FistaNext(t0)),
                                    RSub(sv.sol, self.sol)))
         IN  SolResult([self EXCEPT !.t = FistaNext(t0), !.sol = sv.sol], y, "none")
    ELSE SolResult(self, Zero, "AttributeError")

\* np.diff(buffer, axis=0)
Diff(buf) == AsTuple([i \in 1..(Len(buf) - 1) |-> RSub(buf[i + 1], buf[i])])

\* np.dot(U, U.T)
Gram(U) ==
    AsTuple([i \in 1..Len(U) |-> AsTuple([j \in 1..Len(U) |-> RMul(U[i], U[j])])])

\* np.linalg.norm(M): the Frobenius norm
FroNorm(M) ==
    RSqrt(RSum([i \in 1..Len(M) |-> RSum([j \in 1..Len(M) |-> RMul(M[i][j], M[i][j])])]))

\* M / x, entry by entry
MatDiv(M, x) ==
    AsTuple([i \in 1..Len(M) |-> AsTuple([j \in 1..Len(M) |-> RDiv(M[i][j], x)])])

\* M + lam * np.eye(k), for M of size k
AddDiag(M, lam) ==
    AsTuple([i \in 1..Len(M) |-> AsTuple([j \in 1..Len(M) |->
        IF i = j THEN RAdd(M[i][j], lam) ELSE M[i][j]])])

HasNaN(M) == \E i \in 1..Len(M) : \E j \in 1..Len(M) : IsNaN(M[i][j])

\* M without row 1 and column j
Minor(M, j) ==
    AsTuple([r \in 1..(Len(M) - 1) |-> AsTuple([c \in 1..(Len(M) - 1) |->
        M[r + 1][IF c < j THEN c ELSE c + 1]])])

\* determinant, expanded along the first row
RECURSIVE Det(_)
Det(M) ==
    IF Len(M) = 0 THEN One
    ELSE IF Len(M) = 1 THEN M[1][1]
    ELSE RSum([j \in 1..Len(M) |->
            RMul(IF j % 2 = 1 THEN M[1][j] ELSE RNeg(M[1][j]), Det(Minor(M, j)))])

\* M with column j replaced by ones
WithOnes(M, j) ==
    AsTuple([r \in 1..Len(M) |->
        AsTuple([c \in 1..Len(M) |-> IF c = j THEN One ELSE M[r][c]])])

\* np.linalg.solve(M, np.ones(k)) for M of determinant d: LinAlgError on a
\* singular matrix
SolveBy(M, d) ==
    IF ~IsNaN(d) /\ d.n = 0 THEN [err |-> "LinAlgError", c |-> <<>>]
    ELSE [err |-> "none",
          c |-> AsTuple([j \in 1..Len(M) |-> RDiv(Det(WithOnes(M, j)), d)])]

Solve(M) == SolveBy(M, Det(M))

\* np.sort(np.abs(np.linalg.eigvals(UU))).  The iterates being scalars, UU
\* is the Gram matrix of scalars divided by its norm: its eigenvalues are
\* its trace and zeros.
Eigvals(UU) ==
    AsTuple([i \in 1..Len(UU) |->
        IF i = Len(UU) THEN RAbs(RSum([j \in 1..Len(UU) |-> UU[j][j]])) ELSE Zero])

\* np.concatenate(([0.], np.exp(0.5 * (log(s[:-1]) + log(s[1:])))))
SpectrumGrid(s) ==
    <<Zero>> \o [i \in 1..(Len(s) - 1) |-> RSqrt(RMul(s[i], s[i + 1]))]

\* c / total, entry by entry
ScaleDown(c, total) == AsTuple([i \in 1..Len(c) |-> RDiv(c[i], total)])

\* np.dot(np.asarray(buffer[:-1]).T, c)
Combine(buf, c) == RSum([i \in 1..Len(c) |-> RMul(buf[i], c[i])])

\* from the solution r of the linear system: c[:] /= np.sum(c), and the
\* extrapolated point
ExtrapolateBy(r, buf) ==
    IF r.err # "none" THEN [err |-> r.err, x |-> Zero]
    ELSE [err |-> "none", x |-> Combine(buf, ScaleDown(r.c, RSum(r.c)))]

\* the extrapolation for one value lam of the grid
Extrapolate(UU, lam, buf) == ExtrapolateBy(Solve(AddDiag(UU, lam)), buf)

\* min(fvals), as Python's min scans the list
RECURSIVE MinFrom(_, _, _)
MinFrom(s, i, cur) ==
    IF i > Len(s) THEN cur
    ELSE MinFrom(s, i + 1, IF RLt(s[i], cur) THEN s[i] ELSE cur)

PyMin(s) == MinFrom(s, 2, s[1])

\* fvals.index(v): the first position holding v
IndexOf(s, v) == CHOOSE i \in 1..Len(s) : s[i] = v /\ \A j \in 1..(i - 1) : s[j] # v

\* phi(a) of line_search_armijo: f(xk + a * pk)
LsPhi(fs, xk, pk, a) == SumEval(fs, RAdd(xk, RMul(a, pk)))

\* the Armijo test phi(a) <= phi0 + c1 * a * derphi0, with c1 = 1e-4 and
\* derphi0 = np.dot(gfk, pk), gfk being pk
LsAccepts(fs, xk, pk, phi0, a) ==
    RLe(LsPhi(fs, xk, pk, a),
        RAdd(phi0, RMul(RMul(Q(1, 10000), a), RMul(pk, pk))))

\* the minimiser of the quadratic interpolant, for alpha0 = 1
LsQuadratic(fs, xk, pk, phi0) ==
    RDiv(RDiv(RNeg(RMul(pk, pk)), Two),
         RSub(RSub(LsPhi(fs, xk, pk, One), phi0), RMul(pk, pk)))

\* the search after alpha0 = 1 was refused, alpha1 being the quadratic step
LsAfterFirst(fs, xk, pk, phi0, halvings, alpha1) ==
    IF IsNaN(alpha1) THEN [found |-> FALSE, a |-> Zero]
    ELSE IF LsAccepts(fs, xk, pk, phi0, alpha1) THEN [found |-> TRUE, a |-> alpha1]
    ELSE IF ~RGt(alpha1, Zero) \/ halvings = 0 THEN [found |-> FALSE, a |-> Zero]
    ELSE IF LsAccepts(fs, xk, pk, phi0, RDiv(alpha1, RPow(Two, halvings)))
    THEN [found |-> TRUE, a |-> RDiv(alpha1, RPow(Two, halvings))]
    ELSE [found |-> FALSE, a |-> Zero]

\* scipy's line_search_armijo(f, xk, pk, gfk=pk, old_fval, c1=1e-4, alpha0=1).
\* The first trial step and the minimiser of the quadratic interpolant are
\* computed exactly.  Of the cubic loop that follows, the safeguarded step
\* alpha1 / 2 is followed; halvings says after how many of them the loop
\* tests its last step (0: it gives up at once and returns None).
LineSearchArmijo(fs, xk, pk, old_fval, halvings) ==
    IF LsAccepts(fs, xk, pk, old_fval, One) THEN [found |-> TRUE, a |-> One]
    ELSE LsAfterFirst(fs, xk, pk, old_fval, halvings,
                      LsQuadratic(fs, xk, pk, old_fval))

\* an extrapolating call that raises e with buffer buf and grid lam
RnaRaise(self, buf, lam, rebuilt, e) ==
    [SolResult([self EXCEPT !.buffer = buf, !.lambda = lam], Zero, e)
        EXCEPT !.extrap = TRUE, !.seen = Len(buf), !.grid = lam,
               !.rebuilt = rebuilt]

\* the end of the extrapolating branch: the line search result ls applied
\* to the proposal best, the buffer and the grid cleared
RnaFinish(self, buf, lam, rebuilt, bad, best, ls) ==
    [obj |-> [self EXCEPT !.buffer = <<>>,
                          !.lambda = IF self.adaptive THEN <<>> ELSE lam],
     ret |-> IF self.dolinesearch /\ ls.found
             THEN RAdd(buf[1], RMul(ls.a, RSub(best, buf[1]))) ELSE best,
     err |-> "none", extrap |-> TRUE, seen |-> Len(buf), grid |-> lam,
     rebuilt |-> rebuilt, fallback |-> bad,
     ls |-> IF ~self.dolinesearch THEN "skipped"
            ELSE IF ls.found THEN "found" ELSE "failed",
     alpha |-> IF self.dolinesearch /\ ls.found THEN ls.a ELSE Zero]

\* "Improve proposal with line search": xk = buffer[0], pk = extrap - xk,
\* old_fval = np.sum(objective[-self.k])
RnaLineSearch(self, obj, buf, lam, rebuilt, bad, best, halvings) ==
    RnaFinish(self, buf, lam, rebuilt, bad, best,
              IF self.dolinesearch
              THEN LineSearchArmijo(self.functions, buf[1], RSub(best, buf[1]),
                                    obj[Len(obj) - self.k + 1], halvings)
              ELSE [found |-> FALSE, a |-> Zero])

\* the force-decrease test on the grid values fvals and the proposal kept
RnaDecide(self, sv, obj, buf, lam, rebuilt, cand, fvals, halvings) ==
    IF self.forcedecrease /\ RGt(PyMin(fvals), obj[Len(obj)])
    THEN RnaLineSearch(self, obj, buf, lam, rebuilt, TRUE, sv.sol, halvings)
    ELSE RnaLineSearch(self, obj, buf, lam, rebuilt, FALSE,
                       cand[IndexOf(fvals, PyMin(fvals))].x, halvings)

\* the grid search over the extrapolations cand, one per value of lam
RnaGrid(self, sv, obj, buf, lam, rebuilt, cand, halvings) ==
    IF \E i \in 1..Len(lam) : cand[i].err # "none"
    THEN RnaRaise(self, buf, lam, rebuilt, "LinAlgError")
    ELSE IF lam = <<>> THEN RnaRaise(self, buf, lam, rebuilt, "ValueError")
    ELSE RnaDecide(self, sv, obj, buf, lam, rebuilt, cand,
                   AsTuple([i \in 1..Len(lam) |->
                       SumEval(self.functions, cand[i].x)]),
                   halvings)

\* regularized_nonlinear._update_sol, extrapolating branch, from the grid
\* search on: lam is the grid in self.lambda_ at that point
RnaSearch(self, sv, obj, buf, UU, lam, rebuilt, halvings) ==
    IF Len(UU) # self.k THEN RnaRaise(self, buf, lam, rebuilt, "ValueError")
    ELSE RnaGrid(self, sv, obj, buf, lam, rebuilt,
                 AsTuple([i \in 1..Len(lam) |-> Extrapolate(UU, lam[i], buf)]),
                 halvings)

\* the extrapolating branch once the point is buffered and UU is formed
RnaExtrapolate(self, sv, obj, buf, UU, halvings) ==
    IF "_lambda_" \notin self.has
    THEN [SolResult([self EXCEPT !.buffer = buf], Zero, "AttributeError")
            EXCEPT !.extrap = TRUE, !.seen = Len(buf)]
    ELSE IF self.adaptive /\ Len(self.lambda) <= 1
    THEN IF HasNaN(UU)
         THEN [SolResult([self EXCEPT !.buffer = buf], Zero, "LinAlgError")
                 EXCEPT !.extrap = TRUE, !.seen = Len(buf)]
         ELSE RnaSearch(self, sv, obj, buf, UU, SpectrumGrid(Eigvals(UU)), TRUE,
                        halvings)
    ELSE RnaSearch(self, sv, obj, buf, UU, self.lambda, FALSE, halvings)

\* UU = np.dot(U, U.T); UU /= np.linalg.norm(UU), for U = np.diff(buffer)
NormalisedGram(G) == MatDiv(G, FroNorm(G))

\* regularized_nonlinear._update_sol with the cycle test written
\* niter % self.k instead of niter % (self.k + 1)
RnaUpdateSolEveryK(self, sv, obj, it, halvings) ==
    IF "buffer" \notin self.has THEN SolResult(self, Zero, "AttributeError")
    ELSE IF it % self.k = 0
    THEN RnaExtrapolate(self, sv, obj, Append(self.buffer, sv.sol),
                        NormalisedGram(Gram(Diff(Append(self.buffer, sv.sol)))),
                        halvings)
    ELSE SolResult([self EXCEPT !.buffer = Append(self.buffer, sv.sol)],
                   sv.sol, "none")

\* regularized_nonlinear._update_sol
RnaUpdateSol(self, sv, obj, it, halvings) ==
    IF "buffer" \notin self.has THEN SolResult(self, Zero, "AttributeError")
    ELSE IF it % (self.k + 1) = 0
    THEN RnaExtrapolate(self, sv, obj, Append(self.buffer, sv.sol),
                        NormalisedGram(Gram(Diff(Append(self.buffer, sv.sol)))),
                        halvings)
    ELSE SolResult([self EXCEPT !.buffer = Append(self.buffer, sv.sol)],
                   sv.sol, "none")

\* accel.update_sol: the _update_sol of the instance's class
UpdateSolOf(self, sv, obj, it, halvings) ==
    LET c == Resolve(self.cls, "_update_sol")
    IN  CASE c = "dummy" -> DummyUpdateSol(self, sv)
          [] c = "fista" -> FistaUpdateSol(self, sv, it)
          [] c = "regularized_nonlinear" -> RnaUpdateSol(self, sv, obj, it, halvings)

----------------------------------------------------------------------------
(* update_step *)

\* the loop test of backtracking._update_step; b holds valn, valp and grad
BtCond(self, sv, b) ==
    LET d == RSub(sv.sol, self.sol)
    IN  RGt(RMul(RMul(Two, sv.step),
                 RSub(RSub(b.valp, b.valn), RMul(d, b.grad))),
            RMul(d, d))

\* backtracking._update_step up to its loop: valn, valp and grad
BtEnter(self, sv, obj) ==
    [valn |-> obj[Len(obj)],
     valp |-> SumEval(self.smooth_funs, sv.sol),
     grad |-> SumGrad(self.smooth_funs, self.sol)]

\* the loop body shrinking the step by eta twice
BtShrunkTwice(self, sv) == RMul(RMul(sv.step, self.eta), self.eta)

\* the step the loop body leaves in solver.step
BtShrunk(self, sv) == RMul(sv.step, self.eta)

----------------------------------------------------------------------------
(* The solver and the solve loop (pyunlocbox.solvers) *)

\* solver._algo(): a forward-backward step from the point the iteration
\* started at, under the current step
SolverAlgo(sv, fs) ==
    LET x == RSub(sv.base, RMul(sv.step, FGrad(fs[1], sv.base)))
    IN  [sv EXCEPT !.sol = FProx(fs[2], x, sv.step)]

Points == {Q(-1, 1), Q(0, 1), Q(2, 1)}
Steps == {Q(1, 1), Q(2, 1)}
FunLists == {<<"norm_l2", "norm_l1">>}
Etas == {Q(0, 1), Q(1, 2), Q(1, 1), Q(3, 2)}

\* values handed to lambda_
Num(v) == [kind |-> "num", v |-> v]
BadStr == [kind |-> "str", v |-> Zero]
PyNone == [kind |-> "none", v |-> Zero]
LamScalar(e) == [iter |-> FALSE, elems |-> <<>>, self |-> e]
LamList(es) == [iter |-> TRUE, elems |-> es, self |-> PyNone]
LamString == [iter |-> TRUE, elems |-> <<BadStr, BadStr>>, self |-> BadStr]

LambdaInputs ==
    {LamScalar(Num(Half)), LamList(<<Num(Half), Num(One)>>),
     LamScalar(PyNone), LamScalar(BadStr), LamString}

NoArgs ==
    [cls |-> "none", keys |-> {}, eta |-> Zero, k |-> 0,
     lambda_ |-> LamScalar(PyNone), adaptive |-> FALSE, dolinesearch |-> FALSE,
     forcedecrease |-> FALSE]

\* The values of k the line search is tried with: from k = 3 on the exact
\* rationals of its trial points no longer fit 32-bit integers.
LineSearchKs == {1, 2}

\* the constructor calls tried for one class
ArgsOf(c) ==
    IF c = "regularized_nonlinear"
    THEN {x \in {[NoArgs EXCEPT !.cls = c, !.k = k, !.lambda_ = l, !.adaptive = a,
                                !.dolinesearch = d, !.forcedecrease = f] :
                    k \in 1..MaxK, l \in LambdaInputs, a \in BOOLEAN,
                    d \in BOOLEAN, f \in BOOLEAN} :
            x.dolinesearch => x.k \in LineSearchKs}
    ELSE IF c \in {"backtracking", "fista_backtracking"}
    THEN {[NoArgs EXCEPT !.cls = c]}
         \cup {[NoArgs EXCEPT !.cls = c, !.keys = {"eta"}, !.eta = e] : e \in Etas}
    ELSE {[NoArgs EXCEPT !.cls = c]}

NoSolver == [sol |-> Zero, step |-> Zero, base |-> Zero]
NoBt == [pc |-> "idle", valn |-> Zero, valp |-> Zero, grad |-> Zero, m |-> 0,
         algo |-> 0, step0 |-> Zero, sol0 |-> Zero, agree |-> TRUE]

\* The record of a call: the operation, its iteration index, what it raised
\* and returned (and what the reference instance returned), what the
\* extrapolation did, the loop's counters, and the values on entry of the
\* solver's step (step0), the snapshot (sol0), the buffer length (buf0) and
\* the stored t (told).
NoCall ==
    [op |-> "none", it |-> 0, err |-> "none", printed |-> FALSE,
     ret |-> Zero, refRet |-> Zero, refErr |-> "none",
     extrap |-> FALSE, seen |-> 0, grid |-> <<>>, rebuilt |-> FALSE,
     fallback |-> FALSE, ls |-> "skipped", alpha |-> Zero,
     m |-> 0, algo |-> 0, step0 |-> Zero, agree |-> TRUE,
     sol0 |-> Zero, buf0 |-> 0, told |-> Zero]

Init ==
    /\ cfg = NoArgs
    /\ acc = NoObj
    /\ ref = NoObj
    /\ phase = "new"
    /\ run = 0
    /\ solver = NoSolver
    /\ functions = <<>>
    /\ objective = <<>>
    /\ niter = 0
    /\ done = {}
    /\ bt = NoBt
    /\ last = NoCall

\* acc = cls(**a), for a class among cs
Construct(cs) ==
    /\ phase = "new"
    /\ \E c \in cs : \E a \in ArgsOf(c) : \E r \in {New(a)} :
            /\ cfg' = a
            /\ acc' = IF r.err = "none" THEN r.obj ELSE NoObj
            /\ phase' = IF r.err = "none" THEN "constructed" ELSE "ctor_failed"
            /\ last' = [NoCall EXCEPT !.op = "new", !.err = r.err,
                                      !.printed = r.printed]
    /\ UNCHANGED <<ref, run, solver, functions, objective, niter, done, bt>>

\* solve() starts: acc.pre(functions, x0), the first objective value
StartRun ==
    /\ phase \in {"constructed", "posted"}
    /\ run < MaxRuns
    /\ \E fs \in FunLists : \E x0 \in Points : \E st \in Steps :
        /\ acc' = Pre(acc, fs, x0)
        /\ ref' = Pre(New(cfg).obj, fs, x0)
        /\ solver' = [sol |-> x0, step |-> st, base |-> x0]
        /\ functions' = fs
        /\ objective' = <<SumEval(fs, x0)>>
    /\ phase' = "running"
    /\ run' = run + 1
    /\ niter' = 1
    /\ done' = {}
    /\ last' = [NoCall EXCEPT !.op = "pre"]
    /\ UNCHANGED <<cfg, bt>>

\* How far the Armijo search may get in this call: it runs only in an
\* extrapolating call of regularized_nonlinear with dolinesearch.
LsChoices ==
    IF /\ acc.cls = "regularized_nonlinear"
       /\ acc.dolinesearch
       /\ niter % (acc.k + 1) = 0
    THEN 0..LsMaxHalve ELSE {0}

\* acc.update_sol(solver, objective, niter)
UpdateSol ==
    /\ phase = "running"
    /\ bt.pc = "idle"
    /\ "sol" \notin done
    /\ \E h \in LsChoices :
        \E r \in {UpdateSolOf(acc, solver, objective, niter, h)} :
        \E rr \in {IF ref = acc THEN r
                   ELSE UpdateSolOf(ref, solver, objective, niter, h)} :
            /\ acc' = r.obj
            /\ ref' = rr.obj
            /\ phase' = IF r.err = "none" THEN "running" ELSE "failed"
            /\ last' = [NoCall EXCEPT
                    !.op = "update_sol", !.it = niter, !.err = r.err,
                    !.ret = r.ret, !.refRet = rr.ret, !.refErr = rr.err,
                    !.extrap = r.extrap, !.seen = r.seen, !.grid = r.grid,
                    !.rebuilt = r.rebuilt, !.fallback = r.fallback,
                    !.ls = r.ls, !.alpha = r.alpha,
                    !.sol0 = acc.sol, !.buf0 = Len(acc.buffer),
                    !.told = acc.t]
    /\ done' = done \cup {"sol"}
    /\ UNCHANGED <<cfg, run, solver, functions, objective, niter, bt>>

\* acc.update_step(solver, objective, niter): dummy's returns at once,
\* backtracking's computes valn, valp, grad and reaches its while loop
UpdateStep ==
    /\ phase = "running"
    /\ bt.pc = "idle"
    /\ "step" \notin done
    /\ IF Resolve(acc.cls, "_update_step") = "dummy"
       THEN /\ last' = [NoCall EXCEPT !.op = "update_step", !.it = niter,
                                      !.ret = solver.step, !.refRet = solver.step,
                                      !.step0 = solver.step, !.sol0 = acc.sol]
            /\ done' = done \cup {"step"}
            /\ bt' = bt
       ELSE /\ bt' = BtEnter(acc, solver, objective) @@
                      [pc |-> "loop", m |-> 0, algo |-> 0, step0 |-> solver.step,
                       sol0 |-> acc.sol, agree |-> TRUE]
            /\ last' = [NoCall EXCEPT !.op = "enter_step", !.it = niter]
            /\ done' = done
    /\ UNCHANGED <<cfg, acc, ref, phase, run, solver, functions, objective, niter>>

\* the reference instance takes the same branch of the loop test
RefAgrees(taken) ==
    LET b == [bt EXCEPT !.valp = SumEval(ref.smooth_funs, solver.sol),
                        !.grad = SumGrad(ref.smooth_funs, ref.sol)]
    IN  BtCond(ref, solver, b) = taken /\ ref.eta = acc.eta

\* the counters of loop iterations and of _algo calls count up to MaxShrink
Count(n) == IF n < MaxShrink THEN n + 1 ELSE n

\* the loop test holds: solver.step *= self.eta
BtShrink ==
    /\ bt.pc = "loop"
    /\ BtCond(acc, solver, bt)
    /\ solver' = [solver EXCEPT !.step = BtShrunk(acc, solver)]
    /\ bt' = [bt EXCEPT !.pc = "algo", !.m = Count(@),
                        !.agree = @ /\ RefAgrees(TRUE)]
    /\ last' = [NoCall EXCEPT !.op = "shrink", !.it = niter]
    /\ UNCHANGED <<cfg, acc, ref, phase, run, functions, objective, niter, done>>

\* the rest of the loop body: solver._algo(), then valp is recomputed
BtAlgo ==
    /\ bt.pc = "algo"
    /\ \E sv \in {SolverAlgo(solver, functions)} :
           /\ solver' = sv
           /\ bt' = [bt EXCEPT !.pc = "loop", !.algo = Count(@),
                               !.valp = SumEval(acc.smooth_funs, sv.sol)]
    /\ last' = [NoCall EXCEPT !.op = "algo", !.it = niter]
    /\ UNCHANGED <<cfg, acc, ref, phase, run, functions, objective, niter, done>>

\* the loop test fails: backtracking._update_step returns solver.step
BtReturn ==
    /\ bt.pc = "loop"
    /\ ~BtCond(acc, solver, bt)
    /\ last' = [NoCall EXCEPT !.op = "update_step", !.it = niter,
                              !.ret = solver.step, !.refRet = solver.step,
                              !.m = bt.m, !.algo = bt.algo, !.step0 = bt.step0,
                              !.sol0 = bt.sol0,
                              !.agree = bt.agree /\ RefAgrees(FALSE)]
    /\ bt' = NoBt
    /\ done' = done \cup {"step"}
    /\ UNCHANGED <<cfg, acc, ref, phase, run, solver, functions, objective, niter>>

\* the solver finishes the iteration: a new point, its objective value
Iterate ==
    /\ phase = "running"
    /\ bt.pc = "idle"
    /\ done = {"step", "sol"}
    /\ niter < MaxIter
    /\ \E x \in Points :
        /\ solver' = [solver EXCEPT !.sol = x, !.base = x]
        /\ objective' = Append(objective, SumEval(functions, x))
    /\ niter' = niter + 1
    /\ done' = {}
    /\ last' = [NoCall EXCEPT !.op = "iterate"]
    /\ UNCHANGED <<cfg, acc, ref, phase, run, functions, bt>>

\* solve() ends: acc.post()
EndRun ==
    /\ phase = "running"
    /\ bt.pc = "idle"
    /\ done = {"step", "sol"}
    /\ \E r \in {Post(acc)} :
           /\ acc' = r.obj
           /\ phase' = IF r.err = "none" THEN "posted" ELSE "failed"
           /\ last' = [NoCall EXCEPT !.op = "post", !.err = r.err]
    /\ ref' = NoObj
    /\ solver' = NoSolver
    /\ functions' = <<>>
    /\ objective' = <<>>
    /\ niter' = 0
    /\ done' = {}
    /\ UNCHANGED <<cfg, run, bt>>

Next ==
    \/ Construct(Classes)
    \/ StartRun
    \/ UpdateSol
    \/ UpdateStep
    \/ BtShrink
    \/ BtAlgo
    \/ BtReturn
    \/ Iterate
    \/ EndRun

Spec == Init /\ [][Next]_vars

\* The step-size schemes alone.  A call of update_step that has started
\* keeps executing: the statements of its loop are weakly fair.
NextLoop ==
    \/ Construct({"backtracking", "fista_backtracking"})
    \/ StartRun
    \/ UpdateSol
    \/ UpdateStep
    \/ BtShrink
    \/ BtAlgo
    \/ BtReturn
    \/ Iterate
    \/ EndRun

LoopSpec ==
    /\ Init
    /\ [][NextLoop]_vars
    /\ WF_vars(BtShrink)
    /\ WF_vars(BtAlgo)
    /\ WF_vars(BtReturn)

----------------------------------------------------------------------------
(* Properties *)

\* the last call was update_sol of regularized_nonlinear
RnaCall == last.op = "update_sol" /\ acc.cls = "regularized_nonlinear"

\* the last call was an extrapolating update_sol that returned
RnaExtrapolated == RnaCall /\ last.extrap /\ last.err = "none"

\* C1: an extrapolating update_sol call of regularized_nonlinear with
\* forcedecrease set, in which every grid value exceeds objective[-1],
\* returns the solver's current solution, whatever dolinesearch is.
C1_FallbackReturnsSolverSol ==
    (RnaExtrapolated /\ acc.forcedecrease /\ last.fallback)
        => last.ret = solver.sol

EtaInRange == RGt(cfg.eta, Zero) /\ RLe(cfg.eta, One)

\* C3: backtracking(eta=e) and fista_backtracking(eta=e) raise if and only
\* if e is outside (0, 1]; a fista_backtracking so made has eta = e and t = 1.
C3_EtaErrorIffOutOfRange ==
    (/\ last.op = "new"
     /\ cfg.cls \in {"backtracking", "fista_backtracking"}
     /\ "eta" \in cfg.keys)
    => /\ (last.err # "none") <=> ~EtaInRange
       /\ (EtaInRange /\ cfg.cls = "fista_backtracking") =>
            /\ {"eta", "t"} \subseteq acc.has
            /\ acc.eta = cfg.eta
            /\ acc.t = One

\* C4: the loop of backtracking._update_step exits for every eta the
\* constructor accepts: a call that has entered the loop returns.
C4_LoopExits == (bt.pc # "idle") ~> (bt.pc = "idle")

\* the grid the user handed to the constructor, as floats
UserGrid ==
    IF cfg.lambda_.iter
    THEN AsTuple([i \in 1..Len(cfg.lambda_.elems) |-> cfg.lambda_.elems[i].v])
    ELSE <<cfg.lambda_.self.v>>

\* C5: every extrapolation searches the grid the user supplied, unless
\* adaptive is set and the user supplied no multi-value grid, in which case
\* the grid is rebuilt from the spectrum in that cycle.
C5_GridIsUserGrid ==
    RnaExtrapolated =>
        IF cfg.adaptive /\ Len(UserGrid) <= 1
        THEN last.rebuilt
        ELSE ~last.rebuilt /\ last.grid = UserGrid

\* the value handed to lambda_ converts to a list of floats
Convertible(x) ==
    \/ x.iter /\ FirstFloatErr(x.elems) = "none"
    \/ ~x.iter /\ FloatOf(x.self).err = "none"

\* C6: regularized_nonlinear(lambda_=x) with x not convertible to numbers
\* fails at construction; no instance exists with its grid unset.
C6_BadLambdaRejected ==
    /\ (last.op = "new" /\ cfg.cls = "regularized_nonlinear"
            /\ ~Convertible(cfg.lambda_)) => last.err # "none"
    /\ acc.cls = "regularized_nonlinear" => "_lambda_" \in acc.has

\* the last call was update_sol as fista defines it
FistaCall ==
    /\ last.op = "update_sol"
    /\ Resolve(acc.cls, "_update_sol") = "fista"
    /\ last.err = "none"

\* C7: a fista update_sol call at index 1 applies the recurrence from t = 1
\* whatever t was stored, and returns the solver's solution; the stored t
\* after any call exceeds the t the call used, so t >= 1 always; every call
\* sets the snapshot to the solver's solution.
C7_FistaRestartAndGrowth ==
    /\ "t" \in acc.has => RLe(One, acc.t)
    /\ FistaCall =>
        /\ last.it = 1 => (acc.t = FistaNext(One) /\ last.ret = solver.sol)
        /\ RGt(acc.t, IF last.it = 1 THEN One ELSE last.told)
        /\ acc.sol = solver.sol

\* the first call of a second run found a t above 1 left by the first run
C7_Witness ==
    /\ FistaCall
    /\ run = 2
    /\ last.it = 1
    /\ RGt(last.told, One)
    /\ acc.t = FistaNext(One)

\* the last call was update_step as backtracking defines it, and it returned
BtCall ==
    /\ last.op = "update_step"
    /\ Resolve(acc.cls, "_update_step") = "backtracking"

\* C8: a backtracking update_step call that returns after m loop iterations
\* returns step0 * eta^m, step0 being the solver's step on entry; each
\* iteration called solver._algo once; the returned value is the solver's
\* step, it is at most step0, and the snapshot is unchanged.  (m is exact:
\* the counter stayed below MaxShrink.)
C8_ReturnedStep ==
    BtCall =>
        /\ last.m < MaxShrink
        /\ last.ret = RMul(last.step0, RPow(acc.eta, last.m))
        /\ last.algo = last.m
        /\ last.ret = solver.step
        /\ RLe(last.ret, last.step0)
        /\ acc.sol = last.sol0

\* a call returned after shrinking the step twice or more
C8_Witness ==
    /\ BtCall
    /\ last.m >= 2
    /\ RLt(last.ret, last.step0)

\* C9: update_step and update_sol as dummy defines them return the solver's
\* step and the solver's solution, leave the solver and the objective
\* history as they were, and change nothing of the scheme but the snapshot,
\* which update_sol sets to the solver's solution.
C9_DummyNoOp ==
    [][/\ (last'.op = "update_step" /\ Resolve(acc.cls, "_update_step") = "dummy") =>
            /\ last'.ret = solver.step
            /\ solver' = solver
            /\ objective' = objective
            /\ acc' = acc
       /\ (last'.op = "update_sol" /\ Resolve(acc.cls, "_update_sol") = "dummy") =>
            /\ last'.err = "none"
            /\ last'.ret = solver.sol
            /\ solver' = solver
            /\ objective' = objective
            /\ acc' = [acc EXCEPT !.sol = solver.sol]]_vars

\* dummy's update_sol returned a point that differs from the snapshot it held
C9_Witness ==
    /\ last.op = "update_sol"
    /\ acc.cls = "dummy"
    /\ last.it >= 2
    /\ last.sol0 # solver.sol
    /\ last.ret = solver.sol
    /\ acc.sol = solver.sol

\* C10: in a run after post and a fresh pre, every call returns (or raises)
\* what the same call returns on a freshly constructed instance.
C10_ReuseMatchesFresh ==
    (run >= 2 /\ last.op \in {"update_sol", "update_step"}) =>
        /\ last.ret = last.refRet
        /\ last.err = last.refErr
        /\ last.agree

====
